---- MODULE Spec2Model ----
(***************************************************************************)
(* Model of the design-token build script (brand-layer variant): the       *)
(* collectors that fill primitivePathMap, brandbookPathMap and             *)
(* semanticColorsMap, the reference resolver, the mode merger and the      *)
(* buildTokens driver.  A JavaScript string is a sequence of one-character *)
(* strings; null, undefined and '' (all falsy) are the empty sequence.     *)
(***************************************************************************)
EXTENDS Integers, Sequences, FiniteSets, TLC

(***************************************************************************)
(* Strings                                                                 *)
(***************************************************************************)
LowerLetters == <<"a","b","c","d","e","f","g","h","i","j","k","l","m",
                  "n","o","p","q","r","s","t","u","v","w","x","y","z">>

UpperLetters == <<"A","B","C","D","E","F","G","H","I","J","K","L","M",
                  "N","O","P","Q","R","S","T","U","V","W","X","Y","Z">>

Digits == <<"0","1","2","3","4","5","6","7","8","9">>

HexDigits == <<"0","1","2","3","4","5","6","7","8","9","A","B","C","D","E","F">>

Range(s) == {s[i] : i \in DOMAIN s}

IndexOf(c, s) == CHOOSE i \in DOMAIN s : s[i] = c

IsLower(c) == c \in Range(LowerLetters)

IsUpper(c) == c \in Range(UpperLetters)

IsDigit(c) == c \in Range(Digits)

\* String.prototype.toUpperCase / toLowerCase on one character
UpperChar(c) == IF IsLower(c) THEN UpperLetters[IndexOf(c, LowerLetters)] ELSE c

LowerChar(c) == IF IsUpper(c) THEN LowerLetters[IndexOf(c, UpperLetters)] ELSE c

toUpperCase(s) == [i \in DOMAIN s |-> UpperChar(s[i])]

toLowerCase(s) == [i \in DOMAIN s |-> LowerChar(s[i])]

\* s.slice(from) with a 0-based index, as in JavaScript
SliceFrom(s, from) == IF from >= Len(s) THEN <<>> ELSE SubSeq(s, from + 1, Len(s))

\* s.slice(0, to)
SliceTo(s, to) == IF to >= Len(s) THEN s ELSE SubSeq(s, 1, to)

\* s.startsWith(p), optionally ignoring case (the /i flag of a regexp)
StartsWith(s, p) == Len(s) >= Len(p) /\ SubSeq(s, 1, Len(p)) = p

StartsWithCI(s, p) == StartsWith(toLowerCase(s), toLowerCase(p))

EndsWith(s, p) == Len(s) >= Len(p) /\ SubSeq(s, Len(s) - Len(p) + 1, Len(s)) = p

EndsWithCI(s, p) == EndsWith(toLowerCase(s), toLowerCase(p))

\* s.includes(p)
Includes(s, p) == \E i \in 0..(Len(s) - Len(p)) : SubSeq(s, i + 1, i + Len(p)) = p

\* parts.join(sep)
RECURSIVE Join(_, _)
Join(parts, sep) ==
  IF Len(parts) = 0 THEN <<>>
  ELSE IF Len(parts) = 1 THEN parts[1]
  ELSE parts[1] \o sep \o Join(Tail(parts), sep)

\* s.split(c) for a one-character separator c
RECURSIVE Split(_, _)
Split(s, c) ==
  IF \A i \in DOMAIN s : s[i] # c THEN <<s>>
  ELSE LET k == CHOOSE i \in DOMAIN s : s[i] = c /\ \A j \in 1..(i - 1) : s[j] # c
       IN  <<SubSeq(s, 1, k - 1)>> \o Split(SubSeq(s, k + 1, Len(s)), c)

\* s.replace(/^p/i, '') : drop a leading p, whatever its case
StripPrefixCI(s, p) == IF StartsWithCI(s, p) THEN SliceFrom(s, Len(p)) ELSE s

\* s.replace(/word/gi, repl) : every non-overlapping occurrence, left to right
RECURSIVE ReplaceAllCI(_, _, _)
ReplaceAllCI(s, word, repl) ==
  IF Len(s) < Len(word) THEN s
  ELSE IF StartsWithCI(s, word)
       THEN repl \o ReplaceAllCI(SliceFrom(s, Len(word)), word, repl)
       ELSE <<s[1]>> \o ReplaceAllCI(Tail(s), word, repl)

\* /^\d+$/.test(part)
AllDigits(part) == Len(part) > 0 /\ \A i \in DOMAIN part : IsDigit(part[i])

\* part.charAt(0).toUpperCase() + part.slice(1)
Capitalize(part) == IF Len(part) = 0 THEN <<>> ELSE <<UpperChar(part[1])>> \o Tail(part)

(***************************************************************************)
(* Color literal parser: toComposeColor                                    *)
(***************************************************************************)
NULL == <<>>

\* JavaScript truthiness of a string-or-null value: null, undefined and ''
\* are falsy, every other string is truthy
Truthy(v) == v # <<>>

\* a || b
OrElse(a, b) == IF Truthy(a) THEN a ELSE b

ColorOpen == <<"C","o","l","o","r","(","0","x">>

ColorUnspecified == <<"C","o","l","o","r",".","U","n","s","p","e","c","i","f","i","e","d">>

IsHexChar(c) == toUpperCase(<<c>>)[1] \in Range(HexDigits)

\* n.toString(16).toUpperCase() for an integer n >= 0
RECURSIVE ToHex(_)
ToHex(n) == IF n < 16 THEN <<HexDigits[n + 1]>>
            ELSE ToHex(n \div 16) \o <<HexDigits[(n % 16) + 1]>>

\* str.padStart(2, '0')
PadStart2(str) == IF Len(str) = 0 THEN <<"0","0">>
                  ELSE IF Len(str) = 1 THEN <<"0">> \o str
                  ELSE str

\* parseInt of a run of decimal digits
RECURSIVE ParseInt(_)
ParseInt(ds) == IF Len(ds) = 0 THEN 0
                ELSE 10 * ParseInt(SubSeq(ds, 1, Len(ds) - 1)) + (IndexOf(ds[Len(ds)], Digits) - 1)

RECURSIVE Pow10(_)
Pow10(n) == IF n = 0 THEN 1 ELSE 10 * Pow10(n - 1)

\* The character classes \s, \d and [\d.]
SpaceClass == {" "}

DigitClass == Range(Digits)

DigitOrDotClass == Range(Digits) \cup {"."}

\* First position >= i of s that is not in the class (Len(s) + 1 when the
\* run reaches the end): where a greedy \s*, \d+ or [\d.]+ stops
RunEnd(s, i, class) ==
  IF \A j \in i..Len(s) : s[j] \in class THEN Len(s) + 1
  ELSE CHOOSE j \in i..Len(s) : s[j] \notin class /\ \A k \in i..(j - 1) : s[k] \in class

CharAt(s, i) == IF i \in DOMAIN s THEN s[i] ELSE ""

\* parseFloat of a string of digits and dots, as a fraction num/den;
\* nan when no digit can be read (then Math.round gives NaN)
ParseFloat(a) ==
  LET e1   == RunEnd(a, 1, DigitClass)
      ip   == SubSeq(a, 1, e1 - 1)
      e2   == IF CharAt(a, e1) = "." THEN RunEnd(a, e1 + 1, DigitClass) ELSE e1
      fp   == IF e2 > e1 THEN SubSeq(a, e1 + 1, e2 - 1) ELSE <<>>
  IN  IF Len(ip) = 0 /\ Len(fp) = 0
      THEN [nan |-> TRUE, num |-> 0, den |-> 1]
      ELSE [nan |-> FALSE,
            num |-> ParseInt(ip) * Pow10(Len(fp)) + ParseInt(fp),
            den |-> Pow10(Len(fp))]

\* Mutant: Math.floor in the place of Math.round
AlphaHexFloor(a) ==
  LET f == ParseFloat(a)
  IN  IF f.nan THEN <<"N","A","N">>
      ELSE PadStart2(ToHex((255 * f.num) \div f.den))

\* Math.round(parseFloat(a) * 255).toString(16).padStart(2, '0').toUpperCase()
AlphaHex(a) ==
  LET f == ParseFloat(a)
  IN  IF f.nan THEN <<"N","A","N">>
      ELSE PadStart2(ToHex((2 * 255 * f.num + f.den) \div (2 * f.den)))

NoMatch == [ok |-> FALSE, r |-> <<>>, g |-> <<>>, b |-> <<>>, hasA |-> FALSE, a |-> <<>>]

\* The pieces of the regexp
\*   rgba?\(\s*(\d+)\s*,\s*(\d+)\s*,\s*(\d+)\s*(?:,\s*([\d.]+))?\s*\)
\* after rgba? : "s*" is \s*, "d+" is (\d+), "f+" is ([\d.]+), any other
\* item is that literal character
ChannelItems == <<"(", "s*", "d+", "s*", ",", "s*", "d+", "s*", ",", "s*", "d+", "s*">>

AlphaItems == <<",", "s*", "f+", "s*", ")">>

CloseItems == <<"s*", ")">>

WalkFailed == [ok |-> FALSE, pos |-> 0, caps |-> <<>>]

\* Matches the items one after the other from position pos of s and
\* collects the captured groups; every run is greedy, and no shorter run
\* could match since the character after a run is never of its class
RECURSIVE Walk(_, _, _, _)
RECURSIVE WalkRun(_, _, _, _, _, _)
Walk(s, pos, items, caps) ==
  IF Len(items) = 0 THEN [ok |-> TRUE, pos |-> pos, caps |-> caps]
  ELSE IF Head(items) = "s*" THEN WalkRun(s, pos, RunEnd(s, pos, SpaceClass), items, caps, FALSE)
  ELSE IF Head(items) = "d+" THEN WalkRun(s, pos, RunEnd(s, pos, DigitClass), items, caps, TRUE)
  ELSE IF Head(items) = "f+" THEN WalkRun(s, pos, RunEnd(s, pos, DigitOrDotClass), items, caps, TRUE)
  ELSE IF CharAt(s, pos) = Head(items) THEN Walk(s, pos + 1, Tail(items), caps)
  ELSE WalkFailed

WalkRun(s, pos, end, items, caps, capture) ==
  IF ~capture THEN Walk(s, end, Tail(items), caps)
  ELSE IF end > pos THEN Walk(s, end, Tail(items), Append(caps, SubSeq(s, pos, end - 1)))
  ELSE WalkFailed

Matched(caps) ==
  [ok |-> TRUE, r |-> caps[1], g |-> caps[2], b |-> caps[3],
   hasA |-> Len(caps) = 4, a |-> IF Len(caps) = 4 THEN caps[4] ELSE <<>>]

\* The optional alpha group is tried first, then skipped
RgbaTail(withAlpha, withoutAlpha) ==
  IF withAlpha.ok THEN Matched(withAlpha.caps)
  ELSE IF withoutAlpha.ok THEN Matched(withoutAlpha.caps)
  ELSE NoMatch

RgbaChannels(s, w) ==
  IF w.ok
  THEN RgbaTail(Walk(s, w.pos, AlphaItems, w.caps), Walk(s, w.pos, CloseItems, w.caps))
  ELSE NoMatch

\* The regexp tried at position i of s (1-based)
RgbaMatchAt(s, i) ==
  IF i + 2 <= Len(s) /\ SubSeq(s, i, i + 2) = <<"r","g","b">>
  THEN RgbaChannels(s, Walk(s, IF CharAt(s, i + 3) = "a" THEN i + 4 ELSE i + 3,
                            ChannelItems, <<>>))
  ELSE NoMatch

\* value.match(...) : the leftmost position where the regexp matches
LeftmostMatch(s, hits) ==
  IF hits = {} THEN NoMatch
  ELSE RgbaMatchAt(s, CHOOSE i \in hits : \A k \in hits : i <= k)

RgbaMatch(s) == LeftmostMatch(s, {i \in DOMAIN s : RgbaMatchAt(s, i).ok})

\* /^#([A-Fa-f0-9]{n})$/
IsHexLiteral(s, n) ==
  Len(s) = n + 1 /\ s[1] = "#" /\ \A i \in 2..(n + 1) : IsHexChar(s[i])

\* `Color(0x${alphaHex}${red}${green}${blue})`
RgbaColor(m) ==
  ColorOpen
  \o (IF m.hasA THEN AlphaHex(m.a) ELSE PadStart2(ToHex(255)))
  \o PadStart2(ToHex(ParseInt(m.r)))
  \o PadStart2(ToHex(ParseInt(m.g)))
  \o PadStart2(ToHex(ParseInt(m.b)))
  \o <<")">>

\* Mutant: '#RRGGBBAA' is kept in its order
HexColorNoReorder(hex) ==
  IF Len(hex) = 6 THEN ColorOpen \o <<"F","F">> \o hex \o <<")">>
  ELSE ColorOpen \o hex \o <<")">>

\* Mutant: the alpha of '#RRGGBB' is put last
HexColorAlphaLast(hex) ==
  IF Len(hex) = 6 THEN ColorOpen \o hex \o <<"F","F">> \o <<")">>
  ELSE ColorOpen \o SliceFrom(hex, 6) \o SliceTo(hex, 6) \o <<")">>

\* '#RRGGBB' gets alpha FF; '#RRGGBBAA' is reordered to AARRGGBB
HexColor(hex) ==
  IF Len(hex) = 6 THEN ColorOpen \o <<"F","F">> \o hex \o <<")">>
  ELSE ColorOpen \o SliceFrom(hex, 6) \o SliceTo(hex, 6) \o <<")">>

MatchedColor(value, m) ==
  IF m.ok THEN RgbaColor(m)
  ELSE IF IsHexLiteral(value, 6) \/ IsHexLiteral(value, 8)
  THEN HexColor(toUpperCase(SliceFrom(value, 1)))
  ELSE NULL

toComposeColor(value) ==
  IF ~Truthy(value) THEN NULL
  ELSE IF StartsWith(value, <<"{">>) /\ EndsWith(value, <<"}">>) THEN NULL
  ELSE MatchedColor(value, RgbaMatch(value))

(***************************************************************************)
(* Identifier normalizer                                                   *)
(***************************************************************************)
Vocabulary ==
  << <<"g","r","e","y">>,
     <<"b","l","u","e">>,
     <<"g","r","e","e","n">>,
     <<"w","h","i","t","e">>,
     <<"b","l","a","c","k">>,
     <<"y","e","l","l","o","w">>,
     <<"r","e","d">>,
     <<"p","i","n","k">>,
     <<"a","l","p","h","a">>,
     <<"n","a","v","a","l">>,
     <<"r","o","y","a","l">>,
     <<"e","l","e","c","t","r","i","c">>,
     <<"d","u","c","k">>,
     <<"l","i","m","e">>,
     <<"p","e","a","c","o","c","k">>,
     <<"p","o","p">>,
     <<"s","t","r","a","w","b","e","r","r","y">>,
     <<"r","a","s","p","b","e","r","r","y">>,
     <<"f","u","c","h","s","i","a">>,
     <<"m","a","r","i","n","e">>,
     <<"s","k","y">>,
     <<"t","r","o","p","o","s">>,
     <<"s","t","r","a","t","o","s">>,
     <<"p","l","a","t","i","n","u","m">>,
     <<"d","i","a","m","o","n","d">>,
     <<"g","o","l","d">>,
     <<"s","i","l","v","e","r">>,
     <<"l","i","m","i","t","l","e","s","s">>,
     <<"c","l","a","s","s","i","c">>,
     <<"t","e","m","p">> >>

\* The chain of .replace(/word/gi, 'Word') calls, in the order of the list
RECURSIVE FixColorWords(_, _)
FixColorWords(s, k) ==
  IF k > Len(Vocabulary) THEN s
  ELSE FixColorWords(ReplaceAllCI(s, Vocabulary[k], Capitalize(Vocabulary[k])), k + 1)

PascalPartPrimitive(part) ==
  IF AllDigits(part) THEN part ELSE FixColorWords(Capitalize(part), 1)

toPascalCasePrimitive(str) ==
  LET parts == Split(str, "-")
  IN  Join([i \in DOMAIN parts |-> PascalPartPrimitive(parts[i])], <<>>)

\* .replace(/Hi$/g, 'High')
ReplaceHiAtEnd(s) == IF EndsWith(s, <<"H","i">>) THEN s \o <<"g","h">> ELSE s

\* .replace(/Hi([A-Z])/g, 'High$1')
RECURSIVE ReplaceHiBeforeUpper(_)
ReplaceHiBeforeUpper(s) ==
  IF Len(s) < 3 THEN s
  ELSE IF s[1] = "H" /\ s[2] = "i" /\ IsUpper(s[3])
       THEN <<"H","i","g","h",s[3]>> \o ReplaceHiBeforeUpper(SliceFrom(s, 3))
       ELSE <<s[1]>> \o ReplaceHiBeforeUpper(Tail(s))

PascalPartSemantic(part) == IF AllDigits(part) THEN part ELSE Capitalize(part)

toPascalCaseSemantic(str) ==
  LET parts == Split(str, "-")
  IN  ReplaceHiBeforeUpper(ReplaceHiAtEnd(
        Join([i \in DOMAIN parts |-> PascalPartSemantic(parts[i])], <<>>)))

\* .replace(/-temp$/i, 'Temp')
ReplaceTempSuffix(s) ==
  IF EndsWithCI(s, <<"-","t","e","m","p">>)
  THEN SubSeq(s, 1, Len(s) - 5) \o <<"T","e","m","p">>
  ELSE s

StripPrefixes(fullName) ==
  StripPrefixCI(
    StripPrefixCI(
      StripPrefixCI(
        StripPrefixCI(
          StripPrefixCI(fullName,
            <<"w","e","l","-","p","r","i","m","-","c","o","l","o","r","-","l","e","g","-">>),
          <<"w","e","l","-","p","r","i","m","-","c","o","l","o","r","-">>),
        <<"w","e","l","-","p","r","i","m","-">>),
      <<"w","e","l","-">>),
    <<"l","e","g","-">>)

toPrimitiveKotlinName(path) ==
  toPascalCasePrimitive(ReplaceTempSuffix(StripPrefixes(Join(path, <<"-">>))))

(***************************************************************************)
(* Tokens and dictionaries                                                 *)
(***************************************************************************)
\* A token as the collectors read it: path, declared kind, raw value
Token(path, type, original) == [path |-> path, type |-> type, original |-> original]

\* token.path.join('.')
PathKey(path) == Join(path, <<".">>)

\* originalValue.match(/^\{(.+)\}$/) : the path between the braces, or
\* NULL when the value is not one brace reference
BraceRef(v) ==
  IF Len(v) >= 3 /\ v[1] = "{" /\ v[Len(v)] = "}" THEN SubSeq(v, 2, Len(v) - 1) ELSE NULL

\* The value the token-processing library hands to a format: the raw value
\* with references followed through the dictionary built from the sources
\* of the run; a broken reference is left as it is (brokenReferences: warn)
RECURSIVE Resolve(_, _, _)
Resolve(v, dict, fuel) ==
  LET ref  == BraceRef(v)
      hits == {t \in dict : PathKey(t.path) = ref}
  IN  IF ~Truthy(ref) \/ hits = {} \/ fuel = 0 THEN v
      ELSE Resolve((CHOOSE t \in hits : TRUE).original, dict, fuel - 1)

\* token.value || token.$value
TokenValue(token, dict) == Resolve(token.original, dict, Cardinality(dict))

\* (token.$type || token.type) === 'color'
IsColor(token) == token.type = "color"

Wel == <<"w","e","l">>

Sem == <<"s","e","m">>

ColorSeg == <<"c","o","l","o","r">>

Web == <<"w","e","b">>

BSem == <<"b","S","e","m">>

Leg == <<"l","e","g">>

PathStartsWith(path, a, b, c) ==
  Len(path) >= 3 /\ path[1] = a /\ path[2] = b /\ path[3] = c

\* The file filter of brandbookCollectSD
BrandbookFileFilter(token) == PathStartsWith(token.path, Wel, Web, BSem)

\* The file filter of lightSD and darkSD
SemanticFileFilter(token) == PathStartsWith(token.path, Wel, Sem, ColorSeg)

(***************************************************************************)
(* Collectors                                                              *)
(***************************************************************************)
PrimitivesPrefix ==
  <<"A","c","c","o","r","C","o","l","o","r","P","r","i","m","i","t","i","v","e","s",".">>

\* compose/primitives-collect : the map after the forEach over the color
\* tokens (the paths of a dictionary are distinct, so the order of the
\* writes does not matter)
PrimitivesCollect(map, tokens) ==
  LET colors == {t \in tokens : IsColor(t)}
      keys   == {PathKey(t.path) : t \in colors}
  IN  [k \in (DOMAIN map) \cup keys |->
         IF k \in keys
         THEN PrimitivesPrefix \o
              toPrimitiveKotlinName((CHOOSE t \in colors : PathKey(t.path) = k).path)
         ELSE map[k]]

\* Mutant: the primitive's path is stored, not its identifier
BrandbookCollectRawPath(map, tokens, primMap) ==
  LET hits == {t \in tokens : /\ IsColor(t)
                              /\ Truthy(BraceRef(t.original))
                              /\ BraceRef(t.original) \in DOMAIN primMap}
      keys == {PathKey(t.path) : t \in hits}
  IN  [k \in (DOMAIN map) \cup keys |->
         IF k \in keys
         THEN BraceRef((CHOOSE t \in hits : PathKey(t.path) = k).original)
         ELSE map[k]]

\* compose/brandbook-collect : brand path -> identifier of the primitive the
\* brand token's original value names
BrandbookCollect(map, tokens, primMap) ==
  LET hits == {t \in tokens : /\ IsColor(t)
                              /\ Truthy(BraceRef(t.original))
                              /\ BraceRef(t.original) \in DOMAIN primMap}
      keys == {PathKey(t.path) : t \in hits}
  IN  [k \in (DOMAIN map) \cup keys |->
         IF k \in keys
         THEN primMap[BraceRef((CHOOSE t \in hits : PathKey(t.path) = k).original)]
         ELSE map[k]]

\* Mutant: the lookup in primitivePathMap is left out
getPrimitiveRefBrandOnly(token, primMap, brandMap) ==
  LET refPath == BraceRef(token.original)
  IN  IF ~Truthy(refPath) THEN NULL
      ELSE IF refPath \in DOMAIN brandMap THEN brandMap[refPath]
      ELSE NULL

getPrimitiveRef(token, primMap, brandMap) ==
  LET refPath == BraceRef(token.original)
  IN  IF ~Truthy(refPath) THEN NULL
      ELSE IF refPath \in DOMAIN primMap THEN primMap[refPath]
      ELSE IF refPath \in DOMAIN brandMap THEN brandMap[refPath]
      ELSE NULL

Hover == <<"h","o","v","e","r">>

Pressed == <<"p","r","e","s","s","e","d">>

\* Mutant: the hover and pressed variants are not excluded
SemanticFilterKeepsStates(token) ==
  IsColor(token) /\ PathStartsWith(token.path, Wel, Sem, ColorSeg)

\* The filter of compose/semantic-collect
SemanticFilter(token) ==
  LET pathStr == toLowerCase(PathKey(token.path))
  IN  /\ IsColor(token)
      /\ ~(Includes(pathStr, Hover) \/ Includes(pathStr, Pressed))
      /\ PathStartsWith(token.path, Wel, Sem, ColorSeg)

\* toPascalCaseSemantic(path.slice(3).join('-'))
SemanticName(token) == toPascalCaseSemantic(Join(SliceFrom(token.path, 3), <<"-">>))

\* semanticColorsMap is a Map: a sequence of entries in insertion order
MapHas(map, name) == \E i \in DOMAIN map : map[i].name = name

MapIndex(map, name) == CHOOSE i \in DOMAIN map : map[i].name = name

\* Mutant: composeColor || primitiveRef, the literal preferred
StoredValueLiteralFirst(primitiveRef, composeColor) == OrElse(composeColor, primitiveRef)

\* Mutant: no fallback to the literal
StoredValueRefOnly(primitiveRef, composeColor) == primitiveRef

\* primitiveRef || composeColor
StoredValue(primitiveRef, composeColor) == OrElse(primitiveRef, composeColor)

\* Mutant: the order is the size after the insertion
NewOrderAfterInsertion(map) == Len(map) + 1

\* The order given to an identifier at its first insertion
NewOrder(map) == Len(map)

\* Mutant: the value is written to the slots of both modes
CollectOneBothSlots(map, token, mode, value, primitiveRef) ==
  LET composeColor == toComposeColor(value)
      name         == SemanticName(token)
      map1 == IF MapHas(map, name) THEN map
              ELSE Append(map, [name |-> name, order |-> NewOrder(map),
                                light |-> NULL, dark |-> NULL])
      i    == MapIndex(map1, name)
      v    == StoredValue(primitiveRef, composeColor)
  IN  IF ~Truthy(composeColor) THEN map
      ELSE [map1 EXCEPT ![i].light = v, ![i].dark = v]

\* Mutant: the early return on a value that is not a colour is left out
CollectOneKeepsRejected(map, token, mode, value, primitiveRef) ==
  LET composeColor == toComposeColor(value)
      name         == SemanticName(token)
      map1 == IF MapHas(map, name) THEN map
              ELSE Append(map, [name |-> name, order |-> NewOrder(map),
                                light |-> NULL, dark |-> NULL])
      i    == MapIndex(map1, name)
      v    == StoredValue(primitiveRef, composeColor)
  IN  IF mode = "light" THEN [map1 EXCEPT ![i].light = v]
      ELSE [map1 EXCEPT ![i].dark = v]

\* The body of the forEach of compose/semantic-collect for one token that
\* passed the filter
CollectOne(map, token, mode, value, primitiveRef) ==
  LET composeColor == toComposeColor(value)
      name         == SemanticName(token)
      map1 == IF MapHas(map, name) THEN map
              ELSE Append(map, [name |-> name, order |-> NewOrder(map),
                                light |-> NULL, dark |-> NULL])
      i    == MapIndex(map1, name)
      v    == StoredValue(primitiveRef, composeColor)
  IN  IF ~Truthy(composeColor) THEN map
      ELSE IF mode = "light" THEN [map1 EXCEPT ![i].light = v]
      ELSE [map1 EXCEPT ![i].dark = v]

(***************************************************************************)
(* Emitters                                                                *)
(***************************************************************************)
\* .sort((a, b) => a[1].order - b[1].order) : a stable sort
\* Mutant: the comparator the wrong way round, (a, b) => b[1].order - a[1].order
RECURSIVE InsertByOrderDescending(_, _)
InsertByOrderDescending(sorted, e) ==
  IF Len(sorted) = 0 THEN <<e>>
  ELSE IF e.order - sorted[Len(sorted)].order <= 0 THEN Append(sorted, e)
  ELSE Append(InsertByOrderDescending(SubSeq(sorted, 1, Len(sorted) - 1), e),
              sorted[Len(sorted)])

RECURSIVE InsertByOrder(_, _)
InsertByOrder(sorted, e) ==
  IF Len(sorted) = 0 THEN <<e>>
  ELSE IF sorted[Len(sorted)].order - e.order <= 0 THEN Append(sorted, e)
  ELSE Append(InsertByOrder(SubSeq(sorted, 1, Len(sorted) - 1), e), sorted[Len(sorted)])

RECURSIVE SortByOrder(_)
SortByOrder(entries) ==
  IF Len(entries) = 0 THEN <<>>
  ELSE InsertByOrder(SortByOrder(SubSeq(entries, 1, Len(entries) - 1)), entries[Len(entries)])

\* Mutant: a missing dark value does not inherit the light value
MergedEntryNoFallback(colors) ==
  [name  |-> colors.name,
   light |-> OrElse(colors.light, ColorUnspecified),
   dark  |-> OrElse(colors.dark, ColorUnspecified)]

\* Mutant: a missing light value inherits the dark value
MergedEntryLightFromDark(colors) ==
  [name  |-> colors.name,
   light |-> OrElse(colors.light, OrElse(colors.dark, ColorUnspecified)),
   dark  |-> OrElse(colors.dark, OrElse(colors.light, ColorUnspecified))]

\* One accessor of the semantics document: name, light value, dark value
MergedEntry(colors) ==
  [name  |-> colors.name,
   light |-> OrElse(colors.light, ColorUnspecified),
   dark  |-> OrElse(colors.dark, OrElse(colors.light, ColorUnspecified))]

generateMergedSemanticColors(map) ==
  LET sorted == SortByOrder(map)
  IN  [i \in DOMAIN sorted |-> MergedEntry(sorted[i])]

\* The collation rank of a character of an identifier: digits before
\* letters, letters without regard to case
CharRank(c) ==
  IF IsDigit(c) THEN IndexOf(c, Digits)
  ELSE IF IsLower(c) THEN 10 + IndexOf(c, LowerLetters)
  ELSE IF IsUpper(c) THEN 10 + IndexOf(c, UpperLetters)
  ELSE 0

\* a.localeCompare(b) for identifiers: -1, 0 or 1; case decides only between
\* names that are otherwise equal (lower case first)
RECURSIVE ComparePrimary(_, _)
ComparePrimary(a, b) ==
  IF Len(a) = 0 /\ Len(b) = 0 THEN 0
  ELSE IF Len(a) = 0 THEN -1
  ELSE IF Len(b) = 0 THEN 1
  ELSE IF CharRank(a[1]) < CharRank(b[1]) THEN -1
  ELSE IF CharRank(a[1]) > CharRank(b[1]) THEN 1
  ELSE ComparePrimary(Tail(a), Tail(b))

RECURSIVE CompareCase(_, _)
CompareCase(a, b) ==
  IF Len(a) = 0 \/ Len(b) = 0 THEN 0
  ELSE IF a[1] = b[1] THEN CompareCase(Tail(a), Tail(b))
  ELSE IF IsLower(a[1]) THEN -1 ELSE 1

localeCompare(a, b) ==
  IF ComparePrimary(a, b) # 0 THEN ComparePrimary(a, b) ELSE CompareCase(a, b)

\* .sort((a, b) => a.name.localeCompare(b.name)) : a stable sort
RECURSIVE InsertByName(_, _)
InsertByName(sorted, e) ==
  IF Len(sorted) = 0 THEN <<e>>
  ELSE IF localeCompare(sorted[Len(sorted)].name, e.name) <= 0 THEN Append(sorted, e)
  ELSE Append(InsertByName(SubSeq(sorted, 1, Len(sorted) - 1), e), sorted[Len(sorted)])

RECURSIVE SortByName(_)
SortByName(entries) ==
  IF Len(entries) = 0 THEN <<>>
  ELSE InsertByName(SortByName(SubSeq(entries, 1, Len(entries) - 1)), entries[Len(entries)])

\* Mutant: the document names a constant by its whole path, prefixes kept
PrimitivesFormatWholePath(allTokens, dict) ==
  LET kept  == SelectSeq(allTokens,
                 LAMBDA t : /\ IsColor(t)
                            /\ Leg \notin Range(t.path)
                            /\ Truthy(toComposeColor(TokenValue(t, dict))))
  IN  SortByName([i \in DOMAIN kept |->
                    [name  |-> toPascalCasePrimitive(Join(kept[i].path, <<"-">>)),
                     color |-> toComposeColor(TokenValue(kept[i], dict))]])

\* compose/primitives : the constants of the primitives document
PrimitivesFormat(allTokens, dict) ==
  LET kept  == SelectSeq(allTokens,
                 LAMBDA t : /\ IsColor(t)
                            /\ Leg \notin Range(t.path)
                            /\ Truthy(toComposeColor(TokenValue(t, dict))))
  IN  SortByName([i \in DOMAIN kept |->
                    [name  |-> toPrimitiveKotlinName(kept[i].path),
                     color |-> toComposeColor(TokenValue(kept[i], dict))]])

(***************************************************************************)
(* Input token sets                                                        *)
(***************************************************************************)
RefTo(token) == <<"{">> \o PathKey(token.path) \o <<"}">>

PrimBlue500 ==
  Token(<<Wel, <<"p","r","i","m">>, ColorSeg, <<"b","l","u","e">>, <<"5","0","0">>>>,
        "color", <<"#","0","0","4","7","A","B">>)

PrimBlueDash500 ==
  Token(<<Wel, <<"p","r","i","m">>, ColorSeg, <<"b","l","u","e","-","5","0","0">>>>,
        "color", <<"#","0","0","0","0","F","F">>)

BrandPrimary ==
  Token(<<Wel, Web, BSem, <<"p","r","i","m","a","r","y">>>>, "color", RefTo(PrimBlue500))

BrandAccent ==
  Token(<<Wel, Web, BSem, <<"a","c","c","e","n","t">>>>,
        "color", <<"#","F","F","0","0","0","0">>)

LightTextDefault ==
  Token(<<Wel, Sem, ColorSeg, <<"t","e","x","t","-","d","e","f","a","u","l","t">>>>,
        "color", RefTo(PrimBlue500))

LightSurfaceHi ==
  Token(<<Wel, Sem, ColorSeg, <<"s","u","r","f","a","c","e","-","h","i">>>>,
        "color", RefTo(BrandPrimary))

LightBorder ==
  Token(<<Wel, Sem, ColorSeg, <<"b","o","r","d","e","r">>>>, "color", RefTo(BrandAccent))

DarkTextDefault ==
  Token(<<Wel, Sem, ColorSeg, <<"t","e","x","t","-","d","e","f","a","u","l","t">>>>,
        "color", RefTo(PrimBlueDash500))

DarkSurfaceHi ==
  Token(<<Wel, Sem, ColorSeg, <<"s","u","r","f","a","c","e","-","h","i">>>>,
        "color", RefTo(BrandPrimary))

DarkOverlay ==
  Token(<<Wel, Sem, ColorSeg, <<"o","v","e","r","l","a","y">>>>,
        "color", <<"r","g","b","a","(","0",",","0",",","0",",","0",".","5",")">>)

PrimitivePool == <<PrimBlue500, PrimBlueDash500>>

BrandPool == <<BrandPrimary, BrandAccent>>

LightPool == {LightTextDefault, LightSurfaceHi, LightBorder}

DarkPool == {DarkTextDefault, DarkSurfaceHi, DarkOverlay}

\* Interaction-state variants: a hover token one segment below its base, a
\* pressed token with the state inside a segment and in another case
LightButtonHover ==
  Token(<<Wel, Sem, ColorSeg, <<"b","u","t","t","o","n">>, <<"h","o","v","e","r">>>>,
        "color", RefTo(PrimBlue500))

LightLinkPressed ==
  Token(<<Wel, Sem, ColorSeg, <<"l","i","n","k","-","P","r","e","s","s","e","d">>>>,
        "color", <<"#","0","0","F","F","0","0">>)

DarkButtonHover ==
  Token(<<Wel, Sem, ColorSeg, <<"b","u","t","t","o","n">>, <<"h","o","v","e","r">>>>,
        "color", <<"r","g","b","a","(","2","5","5",",","2","5","5",",","2","5","5",",","0",".","5",")">>)

StatesLightPool == {LightTextDefault, LightButtonHover, LightLinkPressed}

StatesDarkPool == {DarkTextDefault, DarkButtonHover, DarkOverlay}

\* The longest semantic token list of one mode
MaxSem == 2

\* The first tokens of a pool: none of them, one, two, ... all of them
Prefixes(pool) == {SubSeq(pool, 1, n) : n \in 0..Len(pool)}

\* The lists of at most n distinct tokens of a pool, in any order
Lists(pool, n) ==
  UNION {{q \in [1..k -> pool] : \A i, j \in 1..k : i # j => q[i] # q[j]} : k \in 0..n}

(***************************************************************************)
(* buildTokens                                                             *)
(***************************************************************************)
VARIABLES
  pc,                \* the step buildTokens is at
  idx,               \* the token the running semantic-collect is at
  outcome,           \* how each step ended
  primTokens,        \* tokens/primitives
  brandTokens,       \* tokens/brands/brandBook.json
  lightTokens,       \* tokens/colorModes/light.json
  darkTokens,        \* tokens/colorModes/dark.json
  primitivePathMap,
  brandbookPathMap,
  semanticColorsMap,
  primitivesDoc,     \* AccorColorPrimitives.kt
  semanticsDoc,      \* AccorColorSemantics.kt
  call               \* a helper applied on its own: its argument and result

inputs == <<primTokens, brandTokens, lightTokens, darkTokens>>

maps == <<primitivePathMap, brandbookPathMap, semanticColorsMap>>

docs == <<primitivesDoc, semanticsDoc>>

vars == <<pc, idx, outcome, inputs, maps, docs, call>>

\* The variables of buildTokens
pipeline == <<pc, idx, outcome, inputs, maps, docs>>

\* No helper is being applied on its own
NoCall == [fn |-> "none", case |-> <<>>, arg |-> <<>>, ret |-> <<>>, done |-> FALSE]

Steps == <<"primCollect", "brandCollect", "primBuild", "light", "dark", "emit">>

EmptyMap == [k \in {} |-> NULL]

NotWritten == [written |-> FALSE, entries |-> <<>>]

Written(entries) == [written |-> TRUE, entries |-> entries]

\* Mutant: the light pass is run before the brandbook is collected
StepsLightFirst == <<"primCollect", "light", "brandCollect", "primBuild", "dark", "emit">>

NextStepLightFirst(step) ==
  LET i == CHOOSE k \in DOMAIN StepsLightFirst : StepsLightFirst[k] = step
  IN  IF i = Len(StepsLightFirst) THEN "done" ELSE StepsLightFirst[i + 1]

\* The step that follows a step in the body of buildTokens
NextStep(step) ==
  LET i == CHOOSE k \in DOMAIN Steps : Steps[k] = step
  IN  IF i = Len(Steps) THEN "done" ELSE Steps[i + 1]

\* Mutant: the light build is not inside try/catch
AfterThrowLightFatal(step) ==
  IF step \in {"brandCollect", "dark"} THEN NextStep(step) ELSE "failed"

\* Mutant: the primitives build is inside try/catch too
AfterThrowPrimitivesCaught(step) ==
  IF step \in {"brandCollect", "primBuild", "light", "dark"} THEN NextStep(step) ELSE "failed"

\* Where buildTokens goes when a step throws: the brandbook, light and dark
\* builds are inside try/catch, the other steps are not
AfterThrow(step) ==
  IF step \in {"brandCollect", "light", "dark"} THEN NextStep(step) ELSE "failed"

\* The dictionaries the library builds from the sources of each step
PrimitiveDict == Range(primTokens)

BrandbookDict == Range(primTokens) \cup Range(brandTokens)

ModeTokens(mode) == IF mode = "light" THEN lightTokens ELSE darkTokens

ModeDict(mode) == Range(primTokens) \cup Range(brandTokens) \cup Range(ModeTokens(mode))

\* dictionary.allTokens of a semantic step: what passes the file filter
ModeAllTokens(mode) == SelectSeq(ModeTokens(mode), SemanticFileFilter)

Init ==
  /\ pc = "start"
  /\ idx = 1
  /\ outcome = [s \in Range(Steps) |-> "pending"]
  /\ primTokens \in Prefixes(PrimitivePool)
  /\ brandTokens \in Prefixes(BrandPool)
  /\ lightTokens \in Lists(LightPool, MaxSem)
  /\ darkTokens \in Lists(DarkPool, MaxSem)
  /\ primitivePathMap = EmptyMap
  /\ brandbookPathMap = EmptyMap
  /\ semanticColorsMap = <<>>
  /\ primitivesDoc = NotWritten
  /\ semanticsDoc = NotWritten
  /\ call = NoCall

\* Mutant: semanticColorsMap.clear() is left out
ClearMapsKeepsSemantics ==
  /\ pc = "start"
  /\ pc' = Steps[1]
  /\ primitivePathMap' = EmptyMap
  /\ brandbookPathMap' = EmptyMap
  /\ UNCHANGED <<idx, outcome, inputs, call, semanticColorsMap, docs>>

\* primitivePathMap.clear(); brandbookPathMap.clear(); semanticColorsMap.clear()
ClearMaps ==
  /\ pc = "start"
  /\ pc' = Steps[1]
  /\ primitivePathMap' = EmptyMap
  /\ brandbookPathMap' = EmptyMap
  /\ semanticColorsMap' = <<>>
  /\ UNCHANGED <<idx, outcome, inputs, call, docs>>

\* await primitiveCollectSD.buildAllPlatforms()
PrimitivesCollectStep ==
  /\ pc = "primCollect"
  /\ primitivePathMap' = PrimitivesCollect(primitivePathMap, PrimitiveDict)
  /\ outcome' = [outcome EXCEPT !["primCollect"] = "ok"]
  /\ pc' = NextStep("primCollect")
  /\ UNCHANGED <<idx, inputs, call, brandbookPathMap, semanticColorsMap, docs>>

\* try { await brandbookCollectSD.buildAllPlatforms() } catch ...
BrandbookCollectStep ==
  /\ pc = "brandCollect"
  /\ brandbookPathMap' =
       BrandbookCollect(brandbookPathMap,
                        {t \in BrandbookDict : BrandbookFileFilter(t)},
                        primitivePathMap)
  /\ outcome' = [outcome EXCEPT !["brandCollect"] = "ok"]
  /\ pc' = NextStep("brandCollect")
  /\ UNCHANGED <<idx, inputs, call, primitivePathMap, semanticColorsMap, docs>>

\* await primitiveSD.buildAllPlatforms()
PrimitivesBuildStep ==
  /\ pc = "primBuild"
  /\ primitivesDoc' = Written(PrimitivesFormat(primTokens, PrimitiveDict))
  /\ outcome' = [outcome EXCEPT !["primBuild"] = "ok"]
  /\ pc' = NextStep("primBuild")
  /\ idx' = 1
  /\ UNCHANGED <<inputs, call, maps, semanticsDoc>>

\* One turn of the forEach of compose/semantic-collect in lightSD or darkSD
SemanticCollectToken(mode) ==
  /\ pc = mode
  /\ idx <= Len(ModeAllTokens(mode))
  /\ LET token == ModeAllTokens(mode)[idx]
     IN  semanticColorsMap' =
           IF SemanticFilter(token)
           THEN CollectOne(semanticColorsMap, token, mode,
                           TokenValue(token, ModeDict(mode)),
                           getPrimitiveRef(token, primitivePathMap, brandbookPathMap))
           ELSE semanticColorsMap
  /\ idx' = idx + 1
  /\ UNCHANGED <<pc, outcome, inputs, call, primitivePathMap, brandbookPathMap, docs>>

\* buildAllPlatforms() of lightSD or darkSD returns
SemanticCollectDone(mode) ==
  /\ pc = mode
  /\ idx = Len(ModeAllTokens(mode)) + 1
  /\ outcome' = [outcome EXCEPT ![mode] = "ok"]
  /\ pc' = NextStep(mode)
  /\ idx' = 1
  /\ UNCHANGED <<inputs, call, maps, docs>>

\* fs.writeFileSync('build/kotlin/AccorColorSemantics.kt', mergedContent)
Emit ==
  /\ pc = "emit"
  /\ semanticsDoc' = Written(generateMergedSemanticColors(semanticColorsMap))
  /\ outcome' = [outcome EXCEPT !["emit"] = "ok"]
  /\ pc' = NextStep("emit")
  /\ UNCHANGED <<idx, inputs, call, maps, primitivesDoc>>

\* A build of the library throws before it calls the format (a source that
\* cannot be read or parsed): nothing of the step has happened
ThrowsBeforeFormat ==
  /\ pc \in Range(Steps) \ {"emit"}
  /\ idx = 1
  /\ outcome' = [outcome EXCEPT ![pc] = "threwBefore"]
  /\ pc' = AfterThrow(pc)
  /\ UNCHANGED <<idx, inputs, call, maps, docs>>

\* A build of the library throws after the format returned (the file of the
\* step cannot be written): a collector has done all its writes
ThrowsAfterFormat ==
  /\ pc \in Range(Steps) \ {"emit"}
  /\ pc \in {"light", "dark"} => idx = Len(ModeAllTokens(pc)) + 1
  /\ primitivePathMap' =
       IF pc = "primCollect" THEN PrimitivesCollect(primitivePathMap, PrimitiveDict)
       ELSE primitivePathMap
  /\ brandbookPathMap' =
       IF pc = "brandCollect"
       THEN BrandbookCollect(brandbookPathMap,
                             {t \in BrandbookDict : BrandbookFileFilter(t)},
                             primitivePathMap)
       ELSE brandbookPathMap
  /\ outcome' = [outcome EXCEPT ![pc] = "threwAfter"]
  /\ pc' = AfterThrow(pc)
  /\ idx' = 1
  /\ UNCHANGED <<inputs, call, semanticColorsMap, docs>>

\* import('fs') or writeFileSync throws: the semantics document is not written
EmitThrows ==
  /\ pc = "emit"
  /\ outcome' = [outcome EXCEPT !["emit"] = "threwBefore"]
  /\ pc' = AfterThrow("emit")
  /\ UNCHANGED <<idx, inputs, call, maps, docs>>

Next ==
  \/ ClearMaps
  \/ PrimitivesCollectStep
  \/ BrandbookCollectStep
  \/ PrimitivesBuildStep
  \/ \E mode \in {"light", "dark"} : SemanticCollectToken(mode)
  \/ \E mode \in {"light", "dark"} : SemanticCollectDone(mode)
  \/ Emit
  \/ ThrowsBeforeFormat
  \/ ThrowsAfterFormat
  \/ EmitThrows

Spec == Init /\ [][Next]_vars

(***************************************************************************)
(* A later invocation of buildTokens in the same process: the module-level *)
(* maps hold what an earlier invocation, over other token files, left in   *)
(* them                                                                    *)
(***************************************************************************)
EarlierPrimitive ==
  Token(<<Wel, <<"p","r","i","m">>, ColorSeg, <<"r","e","d">>, <<"1","0","0">>>>,
        "color", <<"#","F","F","0","0","0","0">>)

EarlierBrand ==
  Token(<<Wel, Web, BSem, <<"l","e","g","a","c","y">>>>, "color", RefTo(EarlierPrimitive))

EarlierLegacy ==
  Token(<<Wel, Sem, ColorSeg, <<"l","e","g","a","c","y">>>>, "color", RefTo(EarlierBrand))

EarlierTextDefault ==
  Token(<<Wel, Sem, ColorSeg, <<"t","e","x","t","-","d","e","f","a","u","l","t">>>>,
        "color", <<"#","1","1","1","1","1","1">>)

LeftoverPrimitives == PrimitivesCollect(EmptyMap, {EarlierPrimitive})

LeftoverBrandbook == BrandbookCollect(EmptyMap, {EarlierBrand}, LeftoverPrimitives)

LeftoverSemantics ==
  CollectOne(
    CollectOne(
      CollectOne(<<>>, EarlierLegacy, "light", EarlierPrimitive.original,
                 getPrimitiveRef(EarlierLegacy, LeftoverPrimitives, LeftoverBrandbook)),
      EarlierTextDefault, "light", EarlierTextDefault.original, NULL),
    EarlierTextDefault, "dark", EarlierTextDefault.original, NULL)

InitRerun ==
  /\ pc = "start"
  /\ idx = 1
  /\ outcome = [s \in Range(Steps) |-> "pending"]
  /\ primTokens \in Prefixes(PrimitivePool)
  /\ brandTokens \in Prefixes(BrandPool)
  /\ lightTokens \in Lists(LightPool, MaxSem)
  /\ darkTokens \in Lists(DarkPool, MaxSem)
  /\ primitivePathMap = LeftoverPrimitives
  /\ brandbookPathMap = LeftoverBrandbook
  /\ semanticColorsMap = LeftoverSemantics
  /\ primitivesDoc = NotWritten
  /\ semanticsDoc = NotWritten
  /\ call = NoCall

SpecRerun == InitRerun /\ [][Next]_vars

(***************************************************************************)
(* Token files that hold hover and pressed variants                        *)
(***************************************************************************)
InitStates ==
  /\ pc = "start"
  /\ idx = 1
  /\ outcome = [s \in Range(Steps) |-> "pending"]
  /\ primTokens \in Prefixes(PrimitivePool)
  /\ brandTokens \in Prefixes(BrandPool)
  /\ lightTokens \in Lists(StatesLightPool, MaxSem)
  /\ darkTokens \in Lists(StatesDarkPool, MaxSem)
  /\ primitivePathMap = EmptyMap
  /\ brandbookPathMap = EmptyMap
  /\ semanticColorsMap = <<>>
  /\ primitivesDoc = NotWritten
  /\ semanticsDoc = NotWritten
  /\ call = NoCall

SpecStates == InitStates /\ [][Next]_vars

(***************************************************************************)
(* Token files that hold values toComposeColor rejects and primitives of   *)
(* the 'leg' group                                                         *)
(***************************************************************************)
\* A three-digit hex colour: no form toComposeColor knows
PrimShortHex ==
  Token(<<Wel, <<"p","r","i","m">>, ColorSeg, <<"r","e","d">>, <<"1","0","0">>>>,
        "color", <<"#","F","0","0">>)

PrimLegRed ==
  Token(<<Wel, <<"p","r","i","m">>, ColorSeg, Leg, <<"r","e","d">>>>,
        "color", <<"#","F","F","0","0","0","0">>)

\* A reference to the primitive whose value is not a colour
LightGhost ==
  Token(<<Wel, Sem, ColorSeg, <<"g","h","o","s","t">>>>, "color", RefTo(PrimShortHex))

\* A reference to a primitive of the 'leg' group
LightLegacy ==
  Token(<<Wel, Sem, ColorSeg, <<"l","e","g","a","c","y">>>>, "color", RefTo(PrimLegRed))

DarkTextPlain ==
  Token(<<Wel, Sem, ColorSeg, <<"t","e","x","t","-","d","e","f","a","u","l","t">>>>,
        "color", <<"#","1","0","1","0","1","0">>)

\* A hex colour one digit short
DarkGhost ==
  Token(<<Wel, Sem, ColorSeg, <<"g","h","o","s","t">>>>,
        "color", <<"#","1","2","3","4","5">>)

IrregularPrimitivePool == <<PrimShortHex, PrimBlue500, PrimLegRed>>

IrregularLightPool == {LightTextDefault, LightGhost, LightLegacy}

IrregularDarkPool == {DarkTextPlain, DarkGhost, DarkOverlay}

InitIrregular ==
  /\ pc = "start"
  /\ idx = 1
  /\ outcome = [s \in Range(Steps) |-> "pending"]
  /\ primTokens \in Prefixes(IrregularPrimitivePool)
  /\ brandTokens = <<>>
  /\ lightTokens \in Lists(IrregularLightPool, MaxSem)
  /\ darkTokens \in Lists(IrregularDarkPool, MaxSem)
  /\ primitivePathMap = EmptyMap
  /\ brandbookPathMap = EmptyMap
  /\ semanticColorsMap = <<>>
  /\ primitivesDoc = NotWritten
  /\ semanticsDoc = NotWritten
  /\ call = NoCall

SpecIrregular == InitIrregular /\ [][Next]_vars

(***************************************************************************)
(* The helpers applied on their own: toComposeColor to a string,           *)
(* toPrimitiveKotlinName to a primitive path, toPascalCaseSemantic to what *)
(* compose/semantic-collect makes of a semantic path                       *)
(***************************************************************************)
\* The longest run of hexadecimal digits after '#'
MaxHexLen == 8

\* The longest tail of a path after its three leading segments
MaxSegs == 2

HexAlphabet == {"0", "c", "F"}

\* Text around a literal: none, before it, after it, braces
Exact == [pre |-> <<>>, post |-> <<>>]

Wrappers ==
  {Exact,
   [pre |-> <<"x"," ">>, post |-> <<>>],
   [pre |-> <<>>, post |-> <<" ","y">>],
   [pre |-> <<"{">>, post |-> <<"}">>]}

NoAlpha == [given |-> FALSE, text |-> <<>>, fraction |-> FALSE, num |-> 1, den |-> 1]

Alpha(text, fraction, num, den) ==
  [given |-> TRUE, text |-> text, fraction |-> fraction, num |-> num, den |-> den]

\* Alpha arguments with the fraction each one writes; the last three are no
\* fraction between 0 and 1
AlphaSamples ==
  {Alpha(<<"0">>, TRUE, 0, 1),
   Alpha(<<"1">>, TRUE, 1, 1),
   Alpha(<<"1",".","0">>, TRUE, 1, 1),
   Alpha(<<"0",".","5">>, TRUE, 1, 2),
   Alpha(<<".","5">>, TRUE, 1, 2),
   Alpha(<<"0",".","2","5">>, TRUE, 1, 4),
   Alpha(<<"0",".","1">>, TRUE, 1, 10),
   Alpha(<<"0",".","9","9","9">>, TRUE, 999, 1000),
   Alpha(<<"2">>, FALSE, 2, 1),
   Alpha(<<".">>, FALSE, 0, 1),
   Alpha(<<"0",".","5",".","5">>, FALSE, 1, 2)}

ChannelSamples == {0, 7, 128, 255, 256}

Spacings == {<<>>, <<" ">>}

HexCase(w, body) ==
  [kind |-> "hex", pre |-> w.pre, post |-> w.post, body |-> body,
   r |-> 0, g |-> 0, b |-> 0, a |-> NoAlpha, sp |-> <<>>]

FunctionalCase(w, r, g, b, a, sp) ==
  [kind |-> "functional", pre |-> w.pre, post |-> w.post, body |-> <<>>,
   r |-> r, g |-> g, b |-> b, a |-> a, sp |-> sp]

OtherCase(text) ==
  [kind |-> "other", pre |-> <<>>, post |-> <<>>, body |-> text,
   r |-> 0, g |-> 0, b |-> 0, a |-> NoAlpha, sp |-> <<>>]

HexSamples == {<<"#","0","c","F","0","c","F">>, <<"#","0","c","F","0","c","F","0","c">>}

OtherSamples ==
  {<<>>,
   <<"{","w","e","l",".","p","r","i","m",".","c","o","l","o","r",".","b","l","u","e",".","5","0","0","}">>,
   <<"t","r","a","n","s","p","a","r","e","n","t">>,
   <<"0","c","F","0","c","F">>,
   <<"r","g","b","(","1",",","2",")">>,
   <<"r","g","b","(","a",",","b",",","c",")">>}

\* The decimal digits of a natural number
RECURSIVE Decimal(_)
Decimal(n) == IF n < 10 THEN <<Digits[n + 1]>>
              ELSE Decimal(n \div 10) \o <<Digits[(n % 10) + 1]>>

\* The string of a case
Render(c) ==
  c.pre
  \o (IF c.kind = "functional"
      THEN (IF c.a.given THEN <<"r","g","b","a">> ELSE <<"r","g","b">>)
           \o <<"(">> \o c.sp \o Decimal(c.r) \o c.sp \o <<",">>
           \o c.sp \o Decimal(c.g) \o c.sp \o <<",">>
           \o c.sp \o Decimal(c.b) \o c.sp
           \o (IF c.a.given THEN <<",">> \o c.sp \o c.a.text ELSE <<>>)
           \o c.sp \o <<")">>
      ELSE IF c.kind = "hex" THEN <<"#">> \o c.body
      ELSE c.body)
  \o c.post

NameSegments ==
  {<<"b","l","u","e">>, <<"5","0","0">>, <<"b","l","u","e","-","5","0","0">>, <<"2","x","l">>, <<"s","u","r","f","a","c","e","-","h","i">>, <<"l","e","g">>, <<"t","e","m","p">>, <<"g","r","e","y","b","l","u","e">>}

PathTails == UNION {[1..n -> NameSegments] : n \in 0..MaxSegs}

Call(fn, case, arg) == [fn |-> fn, case |-> case, arg |-> arg, ret |-> <<>>, done |-> FALSE]

\* toComposeColor about to be applied to the string of a case
ColorCall(c) == Call("toComposeColor", c, Render(c))

InitHelpers ==
  /\ pc = "start"
  /\ idx = 1
  /\ outcome = [s \in Range(Steps) |-> "pending"]
  /\ primTokens = <<>>
  /\ brandTokens = <<>>
  /\ lightTokens = <<>>
  /\ darkTokens = <<>>
  /\ primitivePathMap = EmptyMap
  /\ brandbookPathMap = EmptyMap
  /\ semanticColorsMap = <<>>
  /\ primitivesDoc = NotWritten
  /\ semanticsDoc = NotWritten
  /\ \/ \E n \in 0..MaxHexLen : \E body \in [1..n -> HexAlphabet] :
          call = ColorCall(HexCase(Exact, body))
     \/ \E w \in Wrappers \ {Exact}, body \in HexSamples :
          call = ColorCall(HexCase(w, body))
     \/ \E w \in Wrappers, r \in ChannelSamples, g \in ChannelSamples, b \in ChannelSamples,
           a \in AlphaSamples \cup {NoAlpha}, sp \in Spacings :
          call = ColorCall(FunctionalCase(w, r, g, b, a, sp))
     \/ \E text \in OtherSamples : call = ColorCall(OtherCase(text))
     \/ \E tail \in PathTails :
          call = Call("toPrimitiveKotlinName", <<>>, <<Wel, <<"p","r","i","m">>, ColorSeg>> \o tail)
     \/ \E tail \in PathTails :
          call = Call("toPascalCaseSemantic", <<>>, <<Wel, Sem, ColorSeg>> \o tail)

\* toComposeColor(value)
ApplyToComposeColor ==
  /\ call.fn = "toComposeColor" /\ ~call.done
  /\ call' = [call EXCEPT !.ret = toComposeColor(call.arg), !.done = TRUE]
  /\ UNCHANGED pipeline

\* toPrimitiveKotlinName(token.path)
ApplyToPrimitiveKotlinName ==
  /\ call.fn = "toPrimitiveKotlinName" /\ ~call.done
  /\ call' = [call EXCEPT !.ret = toPrimitiveKotlinName(call.arg), !.done = TRUE]
  /\ UNCHANGED pipeline

\* toPascalCaseSemantic(token.path.slice(3).join('-'))
ApplyToPascalCaseSemantic ==
  /\ call.fn = "toPascalCaseSemantic" /\ ~call.done
  /\ call' = [call EXCEPT !.ret = SemanticName(Token(call.arg, "color", <<>>)), !.done = TRUE]
  /\ UNCHANGED pipeline

NextHelpers ==
  \/ ApplyToComposeColor
  \/ ApplyToPrimitiveKotlinName
  \/ ApplyToPascalCaseSemantic

SpecHelpers == InitHelpers /\ [][NextHelpers]_vars

(***************************************************************************)
(* What the properties speak about                                         *)
(***************************************************************************)
Modes == {"light", "dark"}

Threw(step) == outcome[step] \in {"threwBefore", "threwAfter"}

\* The format of the step has run to its end
FormatRan(step) == outcome[step] \in {"ok", "threwAfter"}

\* The tokens the semantic-collect of a mode has gone through so far
Processed(mode) ==
  IF pc = mode THEN SubSeq(ModeAllTokens(mode), 1, idx - 1)
  ELSE IF FormatRan(mode) THEN ModeAllTokens(mode)
  ELSE <<>>

\* toComposeColor over the raw values of the inputs, and the filter and the
\* identifier of compose/semantic-collect over their semantic tokens, tabulated
SemanticPool ==
  LightPool \cup DarkPool \cup StatesLightPool \cup StatesDarkPool
    \cup IrregularLightPool \cup IrregularDarkPool

InputTokens ==
  Range(PrimitivePool) \cup Range(IrregularPrimitivePool) \cup Range(BrandPool) \cup SemanticPool

ComposeColorOf == [v \in {t.original : t \in InputTokens} |-> toComposeColor(v)] @@ <<>>

SemanticNameOf == [t \in SemanticPool |-> SemanticName(t)] @@ <<>>

SemanticFilterOf == [t \in SemanticPool |-> SemanticFilter(t)] @@ <<>>

\* toComposeColor of the value the library hands over for the token
ColorOf(token, mode) == ComposeColorOf[TokenValue(token, ModeDict(mode))]

\* The token passes the filter and its value is a color
Contributes(token, mode) == SemanticFilterOf[token] /\ Truthy(ColorOf(token, mode))

Contributing(mode) == SelectSeq(Processed(mode), LAMBDA t : Contributes(t, mode))

ContributedNames(mode) ==
  LET c == Contributing(mode) IN [i \in DOMAIN c |-> SemanticNameOf[c[i]]]

\* A sequence without the later occurrences of its elements
RECURSIVE FirstOccurrences(_)
FirstOccurrences(q) ==
  IF Len(q) = 0 THEN <<>>
  ELSE LET front == FirstOccurrences(SubSeq(q, 1, Len(q) - 1))
       IN  IF q[Len(q)] \in Range(front) THEN front ELSE Append(front, q[Len(q)])

\* The value an entry of semanticColorsMap or of the document has for a mode
ModeValue(entry, mode) == IF mode = "light" THEN entry.light ELSE entry.dark

DocEntries == semanticsDoc.entries

DocNames == [i \in DOMAIN DocEntries |-> DocEntries[i].name]

DocEntriesOf(name) == {j \in DOMAIN DocEntries : DocEntries[j].name = name}

\* The last token of a mode that wrote the identifier, as a set (empty when
\* the mode never wrote it)
LastWriters(mode, name) ==
  LET c == Contributing(mode)
  IN  {c[i] : i \in {k \in DOMAIN c : /\ SemanticNameOf[c[k]] = name
                                      /\ \A l \in (k + 1)..Len(c) : SemanticNameOf[c[l]] # name}}

Ref(token) == getPrimitiveRef(token, primitivePathMap, brandbookPathMap)

\* The token's reference is found in neither lookup map
Unresolvable(token) ==
  /\ Truthy(BraceRef(token.original))
  /\ BraceRef(token.original) \notin DOMAIN primitivePathMap
  /\ BraceRef(token.original) \notin DOMAIN brandbookPathMap

\* The brand tokens a semantic token's original value names, whose own
\* original value names a registered primitive
BrandTargets(token) ==
  {b \in Range(brandTokens) :
     /\ BrandbookFileFilter(b) /\ IsColor(b)
     /\ BraceRef(token.original) = PathKey(b.path)
     /\ Truthy(BraceRef(b.original))
     /\ BraceRef(b.original) \in DOMAIN primitivePathMap}

(***************************************************************************)
(* C1: once the semantics document is written, every identifier of         *)
(* semanticColorsMap that has a light value and no dark value is emitted   *)
(* with a dark value equal to its light value.                             *)
(***************************************************************************)
C1_DarkFallsBackToLight ==
  semanticsDoc.written =>
    \A i \in DOMAIN semanticColorsMap :
      (Truthy(semanticColorsMap[i].light) /\ ~Truthy(semanticColorsMap[i].dark)) =>
        /\ DocEntriesOf(semanticColorsMap[i].name) # {}
        /\ \A j \in DocEntriesOf(semanticColorsMap[i].name) :
             /\ DocEntries[j].light = semanticColorsMap[i].light
             /\ DocEntries[j].dark = DocEntries[j].light

C1_Witness ==
  /\ semanticsDoc.written
  /\ \E i \in DOMAIN semanticColorsMap :
       Truthy(semanticColorsMap[i].light) /\ ~Truthy(semanticColorsMap[i].dark)

(***************************************************************************)
(* C2: once the semantics document is written, every identifier of         *)
(* semanticColorsMap has exactly one entry in it, and an identifier that   *)
(* only the dark pass collected has the light value Color.Unspecified and  *)
(* the dark value it collected.                                            *)
(***************************************************************************)
C2_DarkOnlyGetsUnspecified ==
  semanticsDoc.written =>
    /\ \A i \in DOMAIN semanticColorsMap :
         Cardinality(DocEntriesOf(semanticColorsMap[i].name)) = 1
    /\ \A name \in Range(ContributedNames("dark")) \ Range(ContributedNames("light")) :
         /\ Cardinality(DocEntriesOf(name)) = 1
         /\ \A j \in DocEntriesOf(name) :
              /\ DocEntries[j].light = ColorUnspecified
              /\ DocEntries[j].dark # ColorUnspecified

C2_Witness ==
  /\ semanticsDoc.written
  /\ Range(ContributedNames("dark")) \ Range(ContributedNames("light")) # {}
  /\ Range(ContributedNames("light")) # {}

(***************************************************************************)
(* C3: the entries of the semantics document are in the order in which     *)
(* their identifiers were first collected, the light pass before the dark  *)
(* pass, whichever mode introduced an identifier and however often it was  *)
(* written afterwards.                                                     *)
(***************************************************************************)
C3_FirstSeenOrder ==
  semanticsDoc.written =>
    DocNames = FirstOccurrences(ContributedNames("light") \o ContributedNames("dark"))

C3_Witness ==
  /\ semanticsDoc.written
  /\ Len(DocEntries) >= 3
  /\ Range(ContributedNames("light")) \cap Range(ContributedNames("dark")) # {}
  /\ Range(ContributedNames("dark")) \ Range(ContributedNames("light")) # {}

(***************************************************************************)
(* C4: the steps of buildTokens run in dependency order.  The brandbook    *)
(* collector runs only after the primitive collector has returned; a       *)
(* semantic token is processed only after the primitive collector has      *)
(* returned and the brandbook step has ended; the dark pass starts only     *)
(* after the light pass has ended; the document is written only after      *)
(* both passes have ended.                                                 *)
(***************************************************************************)
Started(step) == pc = step \/ outcome[step] # "pending"

Ended(step) == outcome[step] # "pending"

C4_DependencyOrder ==
  /\ Started("brandCollect") => outcome["primCollect"] = "ok"
  /\ brandbookPathMap # EmptyMap => outcome["primCollect"] = "ok"
  /\ \A mode \in Modes :
       (Started(mode) \/ semanticColorsMap # <<>>) =>
         /\ outcome["primCollect"] = "ok"
         /\ Ended("brandCollect")
         /\ outcome["primBuild"] = "ok"
  /\ Started("dark") => Ended("light")
  /\ (Started("emit") \/ semanticsDoc.written) => Ended("light") /\ Ended("dark")

C4_Witness ==
  /\ pc = "dark" /\ idx > 1
  /\ outcome["brandCollect"] = "ok" /\ outcome["light"] = "ok"
  /\ brandbookPathMap # EmptyMap
  /\ Len(semanticColorsMap) >= 2

(***************************************************************************)
(* C5: once brandbook-collect has pre-resolved the brand tokens, a         *)
(* semantic token whose original value names a brand token whose original  *)
(* value names a registered primitive resolves to that primitive's         *)
(* identifier by the lookup in brandbookPathMap alone (its reference is no *)
(* key of primitivePathMap, and the entry of brandbookPathMap already is   *)
(* the primitive's identifier).                                            *)
(***************************************************************************)
ResolvesThroughBrand(token) ==
  \A b \in BrandTargets(token) :
    /\ BraceRef(token.original) \notin DOMAIN primitivePathMap
    /\ BraceRef(token.original) \in DOMAIN brandbookPathMap
    /\ brandbookPathMap[BraceRef(token.original)] = primitivePathMap[BraceRef(b.original)]
    /\ Ref(token) = primitivePathMap[BraceRef(b.original)]

C5_BrandResolvesWhenCollected ==
  (pc \in Modes /\ FormatRan("brandCollect")) =>
    \A t \in Range(ModeAllTokens(pc)) : ResolvesThroughBrand(t)

C5_Witness ==
  /\ pc = "light" /\ FormatRan("brandCollect")
  /\ \E t \in Range(Processed("light")) :
       /\ BrandTargets(t) # {}
       /\ \E i \in DOMAIN semanticColorsMap :
            /\ semanticColorsMap[i].name = SemanticNameOf[t]
            /\ semanticColorsMap[i].light = PrimitivesPrefix \o toPrimitiveKotlinName(PrimBlue500.path)

(***************************************************************************)
(* C6: the value a semantic color token records for its mode, and the      *)
(* value the document shows for it, is the primitive identifier reference  *)
(* and not the literal color, whenever the token's original value resolves *)
(* through primitivePathMap or brandbookPathMap.                           *)
(***************************************************************************)
C6_ReferencePreferred ==
  \A mode \in Modes : \A t \in Range(Contributing(mode)) :
    (t \in LastWriters(mode, SemanticNameOf[t]) /\ Truthy(Ref(t))) =>
      /\ MapHas(semanticColorsMap, SemanticNameOf[t])
      /\ \A i \in DOMAIN semanticColorsMap :
           semanticColorsMap[i].name = SemanticNameOf[t] =>
             /\ ModeValue(semanticColorsMap[i], mode) = Ref(t)
             /\ StartsWith(ModeValue(semanticColorsMap[i], mode), PrimitivesPrefix)
             /\ ModeValue(semanticColorsMap[i], mode)
                  # ColorOf(t, mode)
      /\ semanticsDoc.written =>
           /\ DocEntriesOf(SemanticNameOf[t]) # {}
           /\ \A j \in DocEntriesOf(SemanticNameOf[t]) : ModeValue(DocEntries[j], mode) = Ref(t)

C6_Witness ==
  /\ semanticsDoc.written
  /\ \E t \in Range(Contributing("light")) :
       Truthy(Ref(t)) /\ BraceRef(t.original) \in DOMAIN primitivePathMap
  /\ \E t \in Range(Contributing("dark")) :
       Truthy(Ref(t)) /\ BraceRef(t.original) \in DOMAIN brandbookPathMap

(***************************************************************************)
(* C7 as stated: every processed semantic token whose reference is in      *)
(* neither lookup map has its literal color recorded for its mode.         *)
(***************************************************************************)
RecordedFor(name, mode) ==
  \E i \in DOMAIN semanticColorsMap :
    semanticColorsMap[i].name = name /\ Truthy(ModeValue(semanticColorsMap[i], mode))

C7_Original_LiteralAlwaysRecorded ==
  \A mode \in Modes : \A t \in Range(Processed(mode)) :
    (SemanticFilterOf[t] /\ Unresolvable(t)) => RecordedFor(SemanticNameOf[t], mode)

(***************************************************************************)
(* C7 as amended: a processed semantic token whose reference is in neither *)
(* lookup map has its literal color recorded for its mode when its value   *)
(* is a color; when it is not (a broken reference is left unresolved) the  *)
(* token records nothing; either way the tokens after it are collected.    *)
(***************************************************************************)
C7_LiteralFallback ==
  \A mode \in Modes :
    /\ \A t \in Range(Processed(mode)) :
         (SemanticFilterOf[t] /\ Unresolvable(t)) =>
           IF Contributes(t, mode)
           THEN t \in LastWriters(mode, SemanticNameOf[t]) =>
                  \E i \in DOMAIN semanticColorsMap :
                    /\ semanticColorsMap[i].name = SemanticNameOf[t]
                    /\ ModeValue(semanticColorsMap[i], mode)
                         = ColorOf(t, mode)
           ELSE LastWriters(mode, SemanticNameOf[t]) = {} =>
                  ~RecordedFor(SemanticNameOf[t], mode)
    /\ \A name \in Range(ContributedNames(mode)) : RecordedFor(name, mode)

C7_Witness ==
  /\ pc = "light" /\ idx = 3
  /\ Unresolvable(lightTokens[1]) /\ Contributes(lightTokens[1], "light")
  /\ Truthy(Ref(lightTokens[2]))
  /\ RecordedFor(SemanticNameOf[lightTokens[1]], "light")
  /\ RecordedFor(SemanticNameOf[lightTokens[2]], "light")

(***************************************************************************)
(* C8: no two keys of primitivePathMap map to the same identifier.         *)
(***************************************************************************)
C8_PrimitiveNamesUnique ==
  \A k1, k2 \in DOMAIN primitivePathMap :
    k1 # k2 => primitivePathMap[k1] # primitivePathMap[k2]

(***************************************************************************)
(* C9: a light build that throws is followed by the dark pass, a dark      *)
(* build that throws is followed by the emission; what the passes          *)
(* collected stays in semanticColorsMap and is in the document once it is  *)
(* written.                                                                *)
(***************************************************************************)
C9_ModeFailuresAreNotFatal ==
  /\ Threw("light") => Started("dark")
  /\ Threw("dark") => Started("emit")
  /\ \A mode \in Modes : \A name \in Range(ContributedNames(mode)) :
       /\ MapHas(semanticColorsMap, name)
       /\ outcome["emit"] = "ok" => DocEntriesOf(name) # {}
  /\ outcome["emit"] = "ok" =>
       semanticsDoc.written /\ Len(DocEntries) = Len(semanticColorsMap)

C9_Witness ==
  /\ pc = "done"
  /\ outcome["light"] = "threwAfter"
  /\ outcome["dark"] = "threwBefore"
  /\ semanticsDoc.written
  /\ Len(DocEntries) = 2

(***************************************************************************)
(* C10 as stated: a primitive-layer step that throws ends the run with no  *)
(* semantic pass executed and no semantics document written, and nothing   *)
(* else ends the run in failure.                                           *)
(***************************************************************************)
PrimitiveFailureIsFatal ==
  (Threw("primCollect") \/ Threw("primBuild")) =>
    /\ pc = "failed"
    /\ ~Started("light") /\ ~Started("dark") /\ ~Started("emit")
    /\ semanticColorsMap = <<>>
    /\ ~semanticsDoc.written

C10_Original_OnlyPrimitiveFailureStops ==
  /\ PrimitiveFailureIsFatal
  /\ pc = "failed" => (Threw("primCollect") \/ Threw("primBuild"))

(***************************************************************************)
(* C10 as amended: a primitive-layer step that throws ends the run with no *)
(* semantic pass executed and no semantics document written; the only      *)
(* other failure that ends the run is one of the emission itself (the fs   *)
(* import or the write of the semantics document); a brandbook, light or   *)
(* dark build that throws does not end it.                                 *)
(***************************************************************************)
C10_FatalFailures ==
  /\ PrimitiveFailureIsFatal
  /\ pc = "failed" <=> (Threw("primCollect") \/ Threw("primBuild") \/ Threw("emit"))
  /\ Threw("emit") => ~semanticsDoc.written

C10_Witness ==
  /\ pc = "failed"
  /\ outcome["primCollect"] = "ok"
  /\ Threw("primBuild")
  /\ primitivePathMap # EmptyMap

(***************************************************************************)
(* C11: in an invocation that finds the maps filled by an earlier one, the *)
(* three maps are empty when the first collection pass starts, and from    *)
(* then on their keys, identifiers and values, and the names, values and   *)
(* order of the semantics document, are those the token sets of this       *)
(* invocation give.                                                        *)
(***************************************************************************)
\* The value the last token of this invocation that wrote the identifier in
\* the mode gives, NULL when no token of the mode wrote it
CurrentValue(mode, name) ==
  LET w == LastWriters(mode, name)
  IN  IF w = {} THEN NULL
      ELSE LET t == CHOOSE x \in w : TRUE IN OrElse(Ref(t), ColorOf(t, mode))

CurrentNames == FirstOccurrences(ContributedNames("light") \o ContributedNames("dark"))

C11_RegistriesBuiltFresh ==
  /\ pc = Steps[1] =>
       /\ primitivePathMap = EmptyMap
       /\ brandbookPathMap = EmptyMap
       /\ semanticColorsMap = <<>>
  /\ pc # "start" =>
       /\ DOMAIN primitivePathMap \subseteq {PathKey(t.path) : t \in Range(primTokens)}
       /\ DOMAIN brandbookPathMap \subseteq {PathKey(t.path) : t \in Range(brandTokens)}
       /\ [i \in DOMAIN semanticColorsMap |-> semanticColorsMap[i].name] = CurrentNames
       /\ \A i \in DOMAIN semanticColorsMap : \A mode \in Modes :
            ModeValue(semanticColorsMap[i], mode)
              = CurrentValue(mode, semanticColorsMap[i].name)
  /\ semanticsDoc.written =>
       /\ DocNames = CurrentNames
       /\ \A j \in DOMAIN DocEntries :
            /\ DocEntries[j].light
                 = OrElse(CurrentValue("light", DocEntries[j].name), ColorUnspecified)
            /\ DocEntries[j].dark
                 = OrElse(CurrentValue("dark", DocEntries[j].name), DocEntries[j].light)

C11_Witness ==
  /\ pc = "done"
  /\ semanticsDoc.written
  /\ Len(DocEntries) = 2
  /\ \E j \in DOMAIN DocEntries :
       /\ DocEntries[j].name = SemanticNameOf[LightTextDefault]
       /\ DocEntries[j].light # LeftoverSemantics[2].light
       /\ DocEntries[j].dark # LeftoverSemantics[2].dark

(***************************************************************************)
(* C12: when the primitive layer defines the color blue.500, the light     *)
(* layer defines wel.sem.color.text-default as a reference to it, the dark *)
(* layer has no token at that path and the light build has called its      *)
(* format, the written semantics document has exactly one entry named      *)
(* TextDefault, with the light value AccorColorPrimitives.Blue500 and a    *)
(* dark value equal to it.                                                 *)
(***************************************************************************)
TextDefaultName == <<"T","e","x","t","D","e","f","a","u","l","t">>

Blue500Reference == <<"A","c","c","o","r","C","o","l","o","r","P","r","i","m","i","t","i","v","e","s",".","B","l","u","e","5","0","0">>

LightOnlyTextDefault ==
  /\ PrimBlue500 \in Range(primTokens)
  /\ LightTextDefault \in Range(lightTokens)
  /\ \A d \in Range(darkTokens) : d.path # LightTextDefault.path
  /\ FormatRan("light")

C12_LightOnlyReference ==
  (semanticsDoc.written /\ LightOnlyTextDefault) =>
    /\ Cardinality(DocEntriesOf(TextDefaultName)) = 1
    /\ \A j \in DocEntriesOf(TextDefaultName) :
         /\ DocEntries[j].light = Blue500Reference
         /\ DocEntries[j].dark = Blue500Reference

C12_Witness ==
  /\ semanticsDoc.written
  /\ LightOnlyTextDefault
  /\ Len(darkTokens) = 2
  /\ Len(DocEntries) = 3
  /\ DocEntriesOf(TextDefaultName) # {}

(***************************************************************************)
(* C13: a token with hover or pressed in its path, in any case, creates no *)
(* identifier and writes no value: its identifier is in neither            *)
(* semanticColorsMap nor the semantics document, and the identifiers of    *)
(* the map are those of the other processed tokens alone.                  *)
(***************************************************************************)
InteractionStateOf ==
  [t \in SemanticPool |->
     \E i \in DOMAIN t.path : \/ Includes(toLowerCase(t.path[i]), Hover)
                              \/ Includes(toLowerCase(t.path[i]), Pressed)] @@ <<>>

\* The identifiers of the processed tokens of a mode that are no
\* interaction-state variant and whose value is a color
SteadyNames(mode) ==
  LET c == SelectSeq(Processed(mode),
                     LAMBDA t : ~InteractionStateOf[t] /\ Truthy(ColorOf(t, mode)))
  IN  [i \in DOMAIN c |-> SemanticNameOf[c[i]]]

C13_NoInteractionStates ==
  /\ \A mode \in Modes : \A t \in Range(ModeTokens(mode)) :
       InteractionStateOf[t] =>
         /\ ~MapHas(semanticColorsMap, SemanticNameOf[t])
         /\ DocEntriesOf(SemanticNameOf[t]) = {}
  /\ [i \in DOMAIN semanticColorsMap |-> semanticColorsMap[i].name]
       = FirstOccurrences(SteadyNames("light") \o SteadyNames("dark"))

C13_Witness ==
  /\ semanticsDoc.written
  /\ FormatRan("light") /\ FormatRan("dark")
  /\ lightTokens = <<LightButtonHover, LightTextDefault>>
  /\ darkTokens = <<DarkOverlay, DarkButtonHover>>
  /\ Len(DocEntries) = 2

(***************************************************************************)
(* What the properties of toComposeColor speak about                       *)
(***************************************************************************)
ColorCallDone == call.fn = "toComposeColor" /\ call.done

\* The case is the literal alone, with no text around it
Alone(c) == c.pre = <<>> /\ c.post = <<>>

UpperHexDigit(c) ==
  CASE c = "a" -> "A" [] c = "b" -> "B" [] c = "c" -> "C"
    [] c = "d" -> "D" [] c = "e" -> "E" [] c = "f" -> "F"
    [] OTHER -> c

UpperHex(body) == [i \in DOMAIN body |-> UpperHexDigit(body[i])]

\* The two hexadecimal digits of a byte
Byte(n) == <<HexDigits[(n \div 16) + 1], HexDigits[(n % 16) + 1]>>

\* round(num / den * 255), halves upwards
RoundedAlpha(a) == (2 * 255 * a.num + a.den) \div (2 * a.den)

(***************************************************************************)
(* C14: for '#' followed by 8 hexadecimal digits of any case,              *)
(* toComposeColor gives Color(0x...) with the last two digits first and    *)
(* the first six after them, in upper case.                                *)
(***************************************************************************)
C14_HexAlphaReordered ==
  (ColorCallDone /\ call.case.kind = "hex" /\ Alone(call.case) /\ Len(call.case.body) = 8) =>
    call.ret = ColorOpen \o UpperHex(SubSeq(call.case.body, 7, 8))
                         \o UpperHex(SubSeq(call.case.body, 1, 6)) \o <<")">>

C14_Witness ==
  /\ ColorCallDone
  /\ call.arg = <<"#","0","c","F","0","c","F","c","0">>
  /\ call.ret = <<"C","o","l","o","r","(","0","x","C","0","0","C","F","0","C","F",")">>

(***************************************************************************)
(* C15: for '#' followed by 6 hexadecimal digits of any case,              *)
(* toComposeColor gives Color(0xFF......) with the six digits in their     *)
(* order, in upper case.                                                   *)
(***************************************************************************)
C15_HexOpaque ==
  (ColorCallDone /\ call.case.kind = "hex" /\ Alone(call.case) /\ Len(call.case.body) = 6) =>
    call.ret = ColorOpen \o <<"F","F">> \o UpperHex(call.case.body) \o <<")">>

C15_Witness ==
  /\ ColorCallDone
  /\ call.arg = <<"#","0","c","F","0","c","F">>
  /\ call.ret = <<"C","o","l","o","r","(","0","x","F","F","0","C","F","0","C","F",")">>

(***************************************************************************)
(* C16: for rgb(r,g,b) and rgba(r,g,b,a), with or without blanks around    *)
(* the arguments, r, g, b in 0..255 and a a fraction in 0..1,              *)
(* toComposeColor gives the alpha byte round(a * 255), FF without a, and   *)
(* then the bytes of r, g and b.                                           *)
(***************************************************************************)
InRange(c) ==
  /\ c.r \in 0..255 /\ c.g \in 0..255 /\ c.b \in 0..255
  /\ c.a.given => c.a.fraction

C16_FunctionalLiteral ==
  (ColorCallDone /\ call.case.kind = "functional" /\ Alone(call.case) /\ InRange(call.case)) =>
    call.ret = ColorOpen
               \o Byte(IF call.case.a.given THEN RoundedAlpha(call.case.a) ELSE 255)
               \o Byte(call.case.r) \o Byte(call.case.g) \o Byte(call.case.b)
               \o <<")">>

C16_Witness ==
  /\ ColorCallDone
  /\ call.arg = <<"r","g","b","a","(","2","5","5",",","0",",","0",",","0",".","5",")">>
  /\ call.ret = <<"C","o","l","o","r","(","0","x","8","0","F","F","0","0","0","0",")">>

(***************************************************************************)
(* C17: whenever toComposeColor returns a color, it is Color(0x...) with   *)
(* exactly 8 upper-case hexadecimal digits.                                *)
(***************************************************************************)
EightHexDigits(ret) ==
  /\ Len(ret) = Len(ColorOpen) + 9
  /\ SubSeq(ret, 1, Len(ColorOpen)) = ColorOpen
  /\ ret[Len(ret)] = ")"
  /\ \A i \in (Len(ColorOpen) + 1)..(Len(ret) - 1) : ret[i] \in Range(HexDigits)

C17_EightHexDigits ==
  (ColorCallDone /\ Truthy(call.ret)) => EightHexDigits(call.ret)

(***************************************************************************)
(* C18: toComposeColor returns null for every string that is not, alone,   *)
(* an rgb(...) or rgba(...) literal or '#' with 6 or 8 hexadecimal digits. *)
(***************************************************************************)
IsLiteral(c) ==
  /\ Alone(c)
  /\ \/ c.kind = "functional"
     \/ c.kind = "hex" /\ Len(c.body) \in {6, 8}

C18_NullForOtherShapes ==
  (ColorCallDone /\ ~IsLiteral(call.case)) => call.ret = NULL

(***************************************************************************)
(* C19: the identifier toPrimitiveKotlinName gives a primitive path, and   *)
(* the one toPascalCaseSemantic gives a semantic path, does not begin with *)
(* a digit.                                                                *)
(***************************************************************************)
C19_NoLeadingDigit ==
  (call.done /\ call.fn \in {"toPrimitiveKotlinName", "toPascalCaseSemantic"}
             /\ Truthy(call.ret)) =>
    ~IsDigit(call.ret[1])

(***************************************************************************)
(* C20: the two applications of toPrimitiveKotlinName to a primitive path, *)
(* in compose/primitives-collect with the maps empty and in                *)
(* compose/primitives with primitivePathMap filled, give the same          *)
(* identifier: the primitives document declares each identifier as often   *)
(* as primitivePathMap holds it for the tokens the document keeps.  The    *)
(* two applications of toPascalCaseSemantic to a path present in both      *)
(* modes give the same identifier: both values are in one entry.           *)
(***************************************************************************)
\* The primitive tokens compose/primitives keeps
KeptPrimitives ==
  {t \in Range(primTokens) :
     IsColor(t) /\ Leg \notin Range(t.path) /\ Truthy(ComposeColorOf[TokenValue(t, PrimitiveDict)])}

PrimitiveNameOf ==
  [t \in Range(PrimitivePool) \cup Range(IrregularPrimitivePool) |->
     toPrimitiveKotlinName(t.path)] @@ <<>>

\* The colour primitives outside 'leg' whose value toComposeColor rejects
RejectedPrimitives ==
  {t \in Range(primTokens) :
     /\ IsColor(t) /\ Leg \notin Range(t.path)
     /\ ~Truthy(ComposeColorOf[TokenValue(t, PrimitiveDict)])}

\* The token passed the filter of semantic-collect and its value is rejected
RejectedIn(token, mode) == SemanticFilterOf[token] /\ ~Truthy(ColorOf(token, mode))

C21_DocumentLeavesOut ==
  primitivesDoc.written =>
    /\ Len(primitivesDoc.entries) = Cardinality(KeptPrimitives)
    /\ \A t \in KeptPrimitives :
         \E j \in DOMAIN primitivesDoc.entries :
           primitivesDoc.entries[j] =
             [name |-> PrimitiveNameOf[t], color |-> ComposeColorOf[TokenValue(t, PrimitiveDict)]]
    /\ \A t \in RejectedPrimitives :
         \A j \in DOMAIN primitivesDoc.entries :
           primitivesDoc.entries[j].name = PrimitiveNameOf[t] =>
             \E k \in KeptPrimitives : PrimitiveNameOf[k] = PrimitiveNameOf[t]

C21_OthersRecorded ==
  \A mode \in Modes : \A t \in Range(Contributing(mode)) :
    \E i \in DOMAIN semanticColorsMap :
      /\ semanticColorsMap[i].name = SemanticNameOf[t]
      /\ Truthy(ModeValue(semanticColorsMap[i], mode))

C21_TurnOnRejected ==
  \A mode \in Modes :
    (pc = mode /\ idx' = idx + 1 /\ RejectedIn(ModeAllTokens(mode)[idx], mode)) =>
      /\ semanticColorsMap' = semanticColorsMap
      /\ pc' = pc
      /\ outcome' = outcome

C21_RejectedValuesSkipped ==
  /\ [](C21_DocumentLeavesOut /\ C21_OthersRecorded)
  /\ [][C21_TurnOnRejected]_vars

\* A finished run in which the document's first primitive and the light
\* pass's first token were rejected and the ones after them were taken
C21_Witness ==
  /\ pc = "done"
  /\ primTokens = <<PrimShortHex, PrimBlue500>>
  /\ lightTokens = <<LightGhost, LightTextDefault>>
  /\ outcome["light"] = "ok"
  /\ Len(primitivesDoc.entries) = 1
  /\ DocNames = <<SemanticNameOf[LightTextDefault]>>

(***************************************************************************)
(* C22: once the semantics document is written, every light or dark value  *)
(* of it that is a reference AccorColorPrimitives.<name> names a constant  *)
(* the primitives document of the run declares.                            *)
(***************************************************************************)
\* The constants the primitives document declares, as the semantics
\* document refers to them
DeclaredReferences ==
  {PrimitivesPrefix \o primitivesDoc.entries[k].name : k \in DOMAIN primitivesDoc.entries}

C22_NoDanglingReferences ==
  semanticsDoc.written =>
    \A j \in DOMAIN DocEntries : \A v \in {DocEntries[j].light, DocEntries[j].dark} :
      StartsWith(v, PrimitivesPrefix) => v \in DeclaredReferences

(***************************************************************************)
(* C23: from the clear at the start of buildTokens on, the order fields of *)
(* the entries of semanticColorsMap are pairwise distinct and are exactly  *)
(* the integers 0 .. size-1; no step changes the order of an identifier    *)
(* that is already in the map, whichever mode writes it again.             *)
(***************************************************************************)
Orders == {semanticColorsMap[i].order : i \in DOMAIN semanticColorsMap}

C23_OrdersDense ==
  pc # "start" =>
    /\ \A i, j \in DOMAIN semanticColorsMap :
         i # j => semanticColorsMap[i].order # semanticColorsMap[j].order
    /\ Orders = 0..(Len(semanticColorsMap) - 1)

C23_OrderKept ==
  pc # "start" =>
    \A i \in DOMAIN semanticColorsMap : \A j \in DOMAIN semanticColorsMap' :
      semanticColorsMap'[j].name = semanticColorsMap[i].name =>
        semanticColorsMap'[j].order = semanticColorsMap[i].order

C23_OrderSetOnce ==
  /\ []C23_OrdersDense
  /\ [][C23_OrderKept]_vars

\* Both passes are over: the light pass skipped a rejected token before its
\* first insertion, the dark pass inserted an identifier and then wrote the
\* one the light pass had inserted
C23_Witness ==
  /\ pc = "emit"
  /\ lightTokens = <<LightGhost, LightTextDefault>>
  /\ darkTokens = <<DarkOverlay, DarkTextPlain>>
  /\ Len(semanticColorsMap) = 2
  /\ \E i \in DOMAIN semanticColorsMap :
       /\ semanticColorsMap[i].name = SemanticNameOf[LightTextDefault]
       /\ semanticColorsMap[i].order = 0
       /\ Truthy(semanticColorsMap[i].light)
       /\ Truthy(semanticColorsMap[i].dark)

(***************************************************************************)
(* C24: every step taken while the semantic-collect pass of a mode is      *)
(* running keeps every entry of semanticColorsMap, with the value of the   *)
(* other mode it had; an entry the step inserts has no value for the other *)
(* mode; primitivePathMap and brandbookPathMap are left as they are.       *)
(***************************************************************************)
OtherMode(mode) == IF mode = "light" THEN "dark" ELSE "light"

C24_OwnSlotOnly ==
  \A mode \in Modes :
    pc = mode =>
      /\ \A i \in DOMAIN semanticColorsMap : \E j \in DOMAIN semanticColorsMap' :
           /\ semanticColorsMap'[j].name = semanticColorsMap[i].name
           /\ ModeValue(semanticColorsMap'[j], OtherMode(mode))
                = ModeValue(semanticColorsMap[i], OtherMode(mode))
      /\ \A j \in DOMAIN semanticColorsMap' :
           ~MapHas(semanticColorsMap, semanticColorsMap'[j].name) =>
             ~Truthy(ModeValue(semanticColorsMap'[j], OtherMode(mode)))
      /\ primitivePathMap' = primitivePathMap
      /\ brandbookPathMap' = brandbookPathMap

C24_PassWritesOwnSlot == [][C24_OwnSlotOnly]_vars

\* The dark pass has written the identifier the light pass had inserted,
\* with both lookup maps filled
C24_Witness ==
  /\ pc = "dark"
  /\ idx = 2
  /\ Len(lightTokens) > 0 /\ lightTokens[1] = LightTextDefault
  /\ Len(darkTokens) > 0 /\ darkTokens[1] = DarkTextDefault
  /\ DOMAIN primitivePathMap # {}
  /\ DOMAIN brandbookPathMap # {}
  /\ \E i \in DOMAIN semanticColorsMap :
       /\ semanticColorsMap[i].name = SemanticNameOf[DarkTextDefault]
       /\ Truthy(semanticColorsMap[i].light)
       /\ Truthy(semanticColorsMap[i].dark)

====
